---- MODULE Spec2Model ----
(***************************************************************************)
(* Model of packages/naga/src/lib.rs: the wasm-facing facade over naga     *)
(* (validity check, validate-only, WGSL -> SPIR-V bytes, WGSL -> MSL,      *)
(* SPIR-V bytes -> text) and the reflection walker with its binding        *)
(* classifier and type namer.                                              *)
(*                                                                         *)
(* Every exported function is stateless, so the state of the model is the  *)
(* call observed at the boundary: which function ran (op), on which        *)
(* arguments (args), what it returned (ret) and which naga primitives it   *)
(* invoked on the way (ext).  A behaviour is one call, optionally followed *)
(* by the caller feeding the bytes it got from wgslToSpirvBin back into    *)
(* spirvBinToText; calls share nothing, so longer histories add nothing.   *)
(* The type namer is the one recursive function: besides its value (the    *)
(* operator get_type_name) the model runs it frame by frame on a call      *)
(* stack (stack), so that its recursion depth and termination are visible. *)
(*                                                                         *)
(* Conventions: Option<T> is a sequence of length 0 (None) or 1 (Some);    *)
(* Result<T, JsValue> is [ok, val] or [ok, err]; a JsValue error message   *)
(* is the sequence of the pieces format! joins; an arena handle is the     *)
(* 1-based position in the arena's sequence.                               *)
(***************************************************************************)
EXTENDS Integers, Sequences, FiniteSets, TLC

VARIABLES op, args, ret, ext, stack

vars == <<op, args, ret, ext, stack>>

(***************************************************************************)
(* Bounds of the enumerated inputs.                                        *)
(***************************************************************************)
MaxEntries == 2
MaxGlobals == 2
MaxExprs == 2
MaxArgs == 2
MaxBytes == 8
MaxChain == 2

None == <<>>
Some(x) == <<x>>
is_some(o) == Len(o) > 0
is_none(o) == Len(o) = 0
unwrap(o) == o[1]
unwrap_or(o, default) == IF is_some(o) THEN unwrap(o) ELSE default

Ok(v) == [ok |-> TRUE, val |-> v]
Err(e) == [ok |-> FALSE, err |-> e]

\* Sequences over S of length at most n, and those without a repeated element.
SeqsUpTo(S, n) == UNION {[1..k -> S] : k \in 0..n}
InjSeqsUpTo(S, n) == {s \in SeqsUpTo(S, n) : \A i, j \in 1..Len(s) : s[i] = s[j] => i = j}

(***************************************************************************)
(* naga IR values                                                          *)
(***************************************************************************)
Scalar(kind, width) == [kind |-> kind, width |-> width]
F32 == Scalar("Float", 4)
U32 == Scalar("Uint", 4)

Space(kind) == [kind |-> kind, access |-> ""]
StorageSpace(access) == [kind |-> "Storage", access |-> access]
AddressSpaces ==
    {Space(k) : k \in {"Function", "Private", "WorkGroup", "Uniform", "Handle", "PushConstant"}}
        \cup {StorageSpace(a) : a \in {"LOAD", "LOAD_STORE"}}

Location(n) == [kind |-> "Location", location |-> n]
BuiltIn(b) == [kind |-> "BuiltIn", builtin |-> b]
is_location(binding) == is_some(binding) /\ unwrap(binding).kind = "Location"

Type(name, inner) == [name |-> name, inner |-> inner]
Member(name, ty, binding, offset) ==
    [name |-> name, ty |-> ty, binding |-> binding, offset |-> offset]

TScalar(s) == [kind |-> "Scalar", scalar |-> s]
TVector(n, s) == [kind |-> "Vector", size |-> n, scalar |-> s]
TMatrix(c, r, s) == [kind |-> "Matrix", columns |-> c, rows |-> r, scalar |-> s]
TAtomic(s) == [kind |-> "Atomic", scalar |-> s]
TPointer(base, space) == [kind |-> "Pointer", base |-> base, space |-> space]
TValuePointer(size, s, space) ==
    [kind |-> "ValuePointer", size |-> size, scalar |-> s, space |-> space]
TArray(base, size) == [kind |-> "Array", base |-> base, size |-> size]
TStruct(members) == [kind |-> "Struct", members |-> members]
TImage(dim, arrayed, class) ==
    [kind |-> "Image", dim |-> dim, arrayed |-> arrayed, class |-> class]
TSampler(comparison) == [kind |-> "Sampler", comparison |-> comparison]
TAccelerationStructure == [kind |-> "AccelerationStructure"]
TRayQuery == [kind |-> "RayQuery"]
TBindingArray(base, size) == [kind |-> "BindingArray", base |-> base, size |-> size]

SizeConstant(n) == [kind |-> "Constant", n |-> n]
SizePending == [kind |-> "Pending"]
SizeDynamic == [kind |-> "Dynamic"]

(***************************************************************************)
(* Type Namer                                                              *)
(***************************************************************************)
scalar_suffix(scalar) ==
    CASE scalar.kind = "Float" /\ scalar.width = 4 -> "f"
      [] scalar.kind = "Sint" /\ scalar.width = 4 -> "i"
      [] scalar.kind = "Uint" /\ scalar.width = 4 -> "u"
      [] scalar.kind = "Bool" -> "b"
      [] scalar.kind = "Float" /\ scalar.width = 8 -> "d"
      [] OTHER -> ""

format_scalar(scalar) ==
    CASE scalar.kind = "Float" /\ scalar.width = 4 -> "f32"
      [] scalar.kind = "Float" /\ scalar.width = 8 -> "f64"
      [] scalar.kind = "Float" /\ scalar.width = 2 -> "f16"
      [] scalar.kind = "Sint" /\ scalar.width = 4 -> "i32"
      [] scalar.kind = "Uint" /\ scalar.width = 4 -> "u32"
      [] scalar.kind = "Bool" -> "bool"
      [] scalar.kind = "AbstractInt" -> "abstract_int"
      [] scalar.kind = "AbstractFloat" -> "abstract_float"
      [] OTHER -> "Scalar { kind: " \o scalar.kind \o ", width: "
                      \o ToString(scalar.width) \o " }"

space_name(space) ==
    CASE space.kind = "Function" -> "function"
      [] space.kind = "Private" -> "private"
      [] space.kind = "WorkGroup" -> "workgroup"
      [] space.kind = "Uniform" -> "uniform"
      [] space.kind = "Storage" -> "storage"
      [] space.kind = "Handle" -> "handle"
      [] space.kind = "PushConstant" -> "push_constant"

image_name(inner) ==
    LET dim_str == CASE inner.dim = "D1" -> "1d"
                     [] inner.dim = "D2" -> "2d"
                     [] inner.dim = "D3" -> "3d"
                     [] inner.dim = "Cube" -> "cube"
        array_str == IF inner.arrayed THEN "_array" ELSE ""
        class_str == CASE inner.class.kind = "Sampled" /\ inner.class.multi -> "_multisampled"
                       [] inner.class.kind = "Depth" -> "_depth"
                       [] inner.class.kind = "Storage" -> "_storage"
                       [] OTHER -> ""
    IN  "texture_" \o dim_str \o array_str \o class_str

sized_name(prefix, base_name, size) ==
    IF size.kind = "Constant"
    THEN prefix \o "<" \o base_name \o ", " \o ToString(size.n) \o ">"
    ELSE prefix \o "<" \o base_name \o ">"

\* Whether the name of the type is built from the name of its base: the arms
\* of get_type_name that call get_type_name again.
needs_base(ty) ==
    is_none(ty.name) /\ ty.inner.kind \in {"Pointer", "Array", "BindingArray"}

\* the declared name honoured for structs only: a named type of another shape
\* is named by its shape
type_name_struct_names_only(ty, base_name) ==
    LET inner == ty.inner
    IN  CASE inner.kind = "Struct" -> Some(unwrap_or(ty.name, "struct"))
          [] inner.kind = "Scalar" -> Some(format_scalar(inner.scalar))
          [] inner.kind = "Pointer" ->
               IF is_none(base_name) THEN None
               ELSE Some("ptr<" \o space_name(inner.space) \o ", " \o unwrap(base_name) \o ">")
          [] inner.kind = "Array" ->
               IF is_none(base_name) THEN None
               ELSE Some(sized_name("array", unwrap(base_name), inner.size))
          [] inner.kind = "BindingArray" ->
               IF is_none(base_name) THEN None
               ELSE Some(sized_name("binding_array", unwrap(base_name), inner.size))
          [] OTHER -> IF is_some(ty.name) THEN Some(unwrap(ty.name)) ELSE Some("unknown")

\* no name for the shapes that carry no scalar or base: match arm _ => return None
type_name_or_none(ty, base_name) ==
    LET inner == ty.inner
    IN  IF is_some(ty.name) THEN Some(unwrap(ty.name))
        ELSE CASE inner.kind = "Scalar" -> Some(format_scalar(inner.scalar))
               [] inner.kind = "Vector" ->
                    Some("vec" \o ToString(inner.size) \o scalar_suffix(inner.scalar))
               [] inner.kind = "Pointer" ->
                    IF is_none(base_name) THEN None
                    ELSE Some("ptr<" \o space_name(inner.space) \o ", "
                                  \o unwrap(base_name) \o ">")
               [] inner.kind = "Array" ->
                    IF is_none(base_name) THEN None
                    ELSE Some(sized_name("array", unwrap(base_name), inner.size))
               [] inner.kind = "BindingArray" ->
                    IF is_none(base_name) THEN None
                    ELSE Some(sized_name("binding_array", unwrap(base_name), inner.size))
               [] OTHER -> None

\* The body of get_type_name, given what the recursive call on the base returned.
type_name_with(ty, base_name) ==
    LET inner == ty.inner
    IN  IF is_some(ty.name) THEN Some(unwrap(ty.name))
        ELSE CASE inner.kind = "Scalar" -> Some(format_scalar(inner.scalar))
               [] inner.kind = "Vector" ->
                    Some("vec" \o ToString(inner.size) \o scalar_suffix(inner.scalar))
               [] inner.kind = "Matrix" ->
                    Some("mat" \o ToString(inner.columns) \o "x" \o ToString(inner.rows)
                             \o scalar_suffix(inner.scalar))
               [] inner.kind = "Atomic" ->
                    Some("atomic<" \o format_scalar(inner.scalar) \o ">")
               [] inner.kind = "Pointer" ->
                    IF is_none(base_name) THEN None
                    ELSE Some("ptr<" \o space_name(inner.space) \o ", "
                                  \o unwrap(base_name) \o ">")
               [] inner.kind = "ValuePointer" ->
                    IF is_some(inner.size)
                    THEN Some("ptr<" \o space_name(inner.space) \o ", vec"
                                  \o ToString(unwrap(inner.size))
                                  \o scalar_suffix(inner.scalar) \o ">")
                    ELSE Some("ptr<" \o space_name(inner.space) \o ", "
                                  \o format_scalar(inner.scalar) \o ">")
               [] inner.kind = "Array" ->
                    IF is_none(base_name) THEN None
                    ELSE Some(sized_name("array", unwrap(base_name), inner.size))
               [] inner.kind = "Struct" -> Some("struct")
               [] inner.kind = "Image" -> Some(image_name(inner))
               [] inner.kind = "Sampler" ->
                    Some(IF inner.comparison THEN "sampler_comparison" ELSE "sampler")
               [] inner.kind = "AccelerationStructure" -> Some("acceleration_structure")
               [] inner.kind = "RayQuery" -> Some("ray_query")
               [] inner.kind = "BindingArray" ->
                    IF is_none(base_name) THEN None
                    ELSE Some(sized_name("binding_array", unwrap(base_name), inner.size))

RECURSIVE get_type_name(_, _)
get_type_name(module, handle) ==
    LET ty == module.types[handle]
    IN  type_name_with(ty, IF needs_base(ty)
                           THEN get_type_name(module, ty.inner.base)
                           ELSE None)

(***************************************************************************)
(* Binding Classifier                                                      *)
(***************************************************************************)
is_uniform(space) == space.kind = "Uniform"
is_storage(space) == space.kind = "Storage"

\* the struct arms without their address-space guards
resource_type_struct_unguarded(inner, space) ==
    CASE inner.kind = "Struct" -> "uniform"
      [] inner.kind = "Image" -> "texture"
      [] inner.kind = "Sampler" -> "sampler"
      [] inner.kind = "Atomic" -> "atomic"
      [] inner.kind \in {"Scalar", "Vector", "Matrix", "Array"} /\ is_uniform(space) -> "uniform"
      [] inner.kind \in {"Scalar", "Vector", "Matrix", "Array"} /\ is_storage(space) -> "storage"
      [] inner.kind = "BindingArray" -> "binding_array"
      [] inner.kind = "AccelerationStructure" -> "acceleration_structure"
      [] inner.kind = "RayQuery" -> "ray_query"
      [] inner.kind = "Pointer" -> "pointer"
      [] OTHER -> "unknown"

resource_type_of(inner, space) ==
    CASE inner.kind = "Struct" /\ is_uniform(space) -> "uniform"
      [] inner.kind = "Struct" /\ is_storage(space) -> "storage"
      [] inner.kind = "Image" -> "texture"
      [] inner.kind = "Sampler" -> "sampler"
      [] inner.kind = "Atomic" -> "atomic"
      [] inner.kind = "Scalar" /\ is_uniform(space) -> "uniform"
      [] inner.kind = "Scalar" /\ is_storage(space) -> "storage"
      [] inner.kind = "Vector" /\ is_uniform(space) -> "uniform"
      [] inner.kind = "Vector" /\ is_storage(space) -> "storage"
      [] inner.kind = "Matrix" /\ is_uniform(space) -> "uniform"
      [] inner.kind = "Matrix" /\ is_storage(space) -> "storage"
      [] inner.kind = "Array" /\ is_uniform(space) -> "uniform"
      [] inner.kind = "Array" /\ is_storage(space) -> "storage"
      [] inner.kind = "BindingArray" -> "binding_array"
      [] inner.kind = "AccelerationStructure" -> "acceleration_structure"
      [] inner.kind = "RayQuery" -> "ray_query"
      [] inner.kind = "Pointer" -> "pointer"
      [] OTHER -> "unknown"

classify_binding(module, var) ==
    LET ty == module.types[var.ty]
        type_name == get_type_name(module, var.ty)
    IN  <<resource_type_of(ty.inner, var.space), type_name>>

(***************************************************************************)
(* naga primitives the facade calls.  Their results are fixed by the       *)
(* input: a source text is represented by what front::wgsl::parse_str      *)
(* makes of it, a module carries the validator's verdict on the content    *)
(* the model does not unfold, and a function body carries whether the      *)
(* backends can lower it and the word it lowers to.                        *)
(***************************************************************************)
Call(fn, arg) == [fn |-> fn, arg |-> arg]

parse_str(wgsl) == wgsl.parse

validate(module) ==
    IF is_some(module.validation_error)
    THEN Err(unwrap(module.validation_error))
    ELSE Ok("ModuleInfo")

\* A u32 word, as its two 16-bit halves.
Word(hi, lo) == [hi |-> hi, lo |-> lo]

\* 0x07230203
SpvMagic == Word(7 * 256 + 35, 2 * 256 + 3)

ExecutionModel(stage) ==
    CASE stage = "Vertex" -> Word(0, 0)
      [] stage = "Fragment" -> Word(0, 4)
      [] stage = "Compute" -> Word(0, 5)
      [] stage = "Task" -> Word(0, 5364)
      [] stage = "Mesh" -> Word(0, 5365)

\* The entry points a backend compiles: all of them without a restriction,
\* otherwise those of the requested stage and name.
RECURSIVE SelectedFrom(_, _, _)
SelectedFrom(eps, pipeline, i) ==
    IF i > Len(eps) THEN <<>>
    ELSE (IF is_none(pipeline) THEN <<eps[i]>>
          ELSE IF eps[i].stage = unwrap(pipeline).shader_stage
                    /\ eps[i].name = unwrap(pipeline).entry_point
          THEN <<eps[i]>>
          ELSE <<>>) \o SelectedFrom(eps, pipeline, i + 1)

Selected(module, pipeline) == SelectedFrom(module.entry_points, pipeline, 1)

RECURSIVE EntryWords(_, _)
EntryWords(eps, i) ==
    IF i > Len(eps) THEN <<>>
    ELSE <<ExecutionModel(eps[i].stage), eps[i].function.body.code>> \o EntryWords(eps, i + 1)

spv_write_vec(module, info, pipeline) ==
    LET eps == Selected(module, pipeline)
    IN  IF is_some(pipeline) /\ Len(eps) = 0 THEN Err("EntryPointNotFound")
        ELSE IF \E i \in 1..Len(eps) : ~eps[i].function.body.lowerable
        THEN Err("FeatureNotImplemented")
        ELSE Ok(<<SpvMagic>> \o EntryWords(eps, 1))

msl_write_string(module, info, pipeline) ==
    LET eps == Selected(module, pipeline)
    IN  IF is_some(pipeline) /\ Len(eps) = 0 THEN Err("EntryPointNotFound")
        ELSE IF \E i \in 1..Len(eps) : ~eps[i].function.body.lowerable
        THEN Err("FeatureNotImplemented")
        ELSE Ok(<<"metal">> \o [i \in 1..Len(eps) |-> eps[i].name])

from_le_bytes(b) == Word(b[3] + 256 * b[4], b[1] + 256 * b[2])

parse_u8_slice(spirv_bytes) ==
    IF Len(spirv_bytes) >= 4 /\ from_le_bytes(SubSeq(spirv_bytes, 1, 4)) = SpvMagic
    THEN Ok([spv |-> spirv_bytes, validation_error |-> None])
    ELSE Err("InvalidHeader")

wgsl_write_string(module, info) == Ok(<<"wgsl", Len(module.spv)>>)

(***************************************************************************)
(* Compile Facade                                                          *)
(***************************************************************************)
\* Each facade function yields [ret, ext]: its result and the naga
\* primitives it invoked, in order.
Outcome(r, e) == [ret |-> r, ext |-> e]

\* parse_and_validate without the validation step
parse_only(wgsl) ==
    LET parsed == parse_str(wgsl)
        e1 == <<Call("front::wgsl::parse_str", None)>>
    IN  IF ~parsed.ok THEN Outcome(Err(<<parsed.err>>), e1)
        ELSE Outcome(Ok([module |-> parsed.val, info |-> "ModuleInfo"]), e1)

parse_and_validate(wgsl) ==
    LET parsed == parse_str(wgsl)
        e1 == <<Call("front::wgsl::parse_str", None)>>
    IN  IF ~parsed.ok THEN Outcome(Err(<<parsed.err>>), e1)
        ELSE LET info == validate(parsed.val)
                 e2 == e1 \o <<Call("Validator::validate", None)>>
             IN  IF ~info.ok THEN Outcome(Err(<<info.err>>), e2)
                 ELSE Outcome(Ok([module |-> parsed.val, info |-> info.val]), e2)

is_wgsl_valid(wgsl) ==
    LET pv == parse_and_validate(wgsl)
    IN  Outcome(pv.ret.ok, pv.ext)

validate_wgsl(wgsl) ==
    LET pv == parse_and_validate(wgsl)
    IN  IF ~pv.ret.ok THEN Outcome(Err(pv.ret.err), pv.ext)
        ELSE Outcome(Ok(<<>>), pv.ext)

\* find that settles for the first entry point when the name matches none
find_entry_or_first(module, ep_name) ==
    LET hits == {i \in 1..Len(module.entry_points) : module.entry_points[i].name = ep_name}
    IN  IF module.entry_points = <<>> THEN None
        ELSE IF hits = {} THEN Some(module.entry_points[1])
        ELSE Some(module.entry_points[CHOOSE i \in hits : \A j \in hits : i <= j])

\* module.entry_points.iter().find(|ep| ep.name == ep_name)
find_entry(module, ep_name) ==
    LET hits == {i \in 1..Len(module.entry_points) : module.entry_points[i].name = ep_name}
    IN  IF hits = {} THEN None
        ELSE Some(module.entry_points[CHOOSE i \in hits : \A j \in hits : i <= j])

not_found(ep_name) == <<"Entry point '", ep_name, "' not found">>

\* spv_pipeline_opts without the is_empty() test
spv_pipeline_opts_lookup_empty(module, entry_point) ==
    IF is_some(entry_point)
    THEN LET ep_name == unwrap(entry_point)
             entry == find_entry(module, ep_name)
         IN  IF is_none(entry) THEN Err(not_found(ep_name))
             ELSE Ok(Some([shader_stage |-> unwrap(entry).stage, entry_point |-> ep_name]))
    ELSE Ok(None)

\* Result<Option<spv::PipelineOptions>, JsValue>
spv_pipeline_opts(module, entry_point) ==
    IF is_some(entry_point)
    THEN LET ep_name == unwrap(entry_point)
         IN  IF ep_name = "" THEN Ok(None)
             ELSE LET entry == find_entry(module, ep_name)
                  IN  IF is_none(entry) THEN Err(not_found(ep_name))
                      ELSE Ok(Some([shader_stage |-> unwrap(entry).stage,
                                    entry_point |-> ep_name]))
    ELSE Ok(None)

to_be_bytes(w) ==
    <<(w.hi \div 256) % 256, w.hi % 256, (w.lo \div 256) % 256, w.lo % 256>>

to_le_bytes(w) ==
    <<w.lo % 256, (w.lo \div 256) % 256, w.hi % 256, (w.hi \div 256) % 256>>

RECURSIVE words_to_bytes(_, _)
words_to_bytes(words, i) ==
    IF i > Len(words) THEN <<>>
    ELSE to_le_bytes(words[i]) \o words_to_bytes(words, i + 1)

wgsl_to_spirv_bin(wgsl, entry_point) ==
    LET pv == parse_and_validate(wgsl)
    IN  IF ~pv.ret.ok THEN Outcome(Err(pv.ret.err), pv.ext)
        ELSE
          LET module == pv.ret.val.module
              info == pv.ret.val.info
              pipeline_opts == spv_pipeline_opts(module, entry_point)
          IN  IF ~pipeline_opts.ok THEN Outcome(Err(pipeline_opts.err), pv.ext)
              ELSE
                LET words == spv_write_vec(module, info, pipeline_opts.val)
                    e == pv.ext \o <<Call("back::spv::write_vec", pipeline_opts.val)>>
                IN  IF ~words.ok THEN Outcome(Err(<<"SPIR-V error: ", words.err>>), e)
                    ELSE Outcome(Ok(words_to_bytes(words.val, 1)), e)

\* Result<Option<msl::PipelineOptions.entry_point>, JsValue>: the restriction
\* handed to back::msl::write_string, None for PipelineOptions::default().
msl_pipeline_opts(module, entry_point) ==
    IF is_some(entry_point) /\ unwrap(entry_point) # ""
    THEN LET ep_name == unwrap(entry_point)
             entry == find_entry(module, ep_name)
         IN  IF is_none(entry) THEN Err(not_found(ep_name))
             ELSE Ok(Some([shader_stage |-> unwrap(entry).stage, entry_point |-> ep_name]))
    ELSE Ok(None)

wgsl_to_msl(wgsl, entry_point) ==
    LET pv == parse_and_validate(wgsl)
    IN  IF ~pv.ret.ok THEN Outcome(Err(pv.ret.err), pv.ext)
        ELSE
          LET module == pv.ret.val.module
              info == pv.ret.val.info
              pipeline_opts == msl_pipeline_opts(module, entry_point)
          IN  IF ~pipeline_opts.ok THEN Outcome(Err(pipeline_opts.err), pv.ext)
              ELSE
                LET msl_source == msl_write_string(module, info, pipeline_opts.val)
                    e == pv.ext \o <<Call("back::msl::write_string", pipeline_opts.val)>>
                IN  IF ~msl_source.ok THEN Outcome(Err(<<"MSL error: ", msl_source.err>>), e)
                    ELSE Outcome(Ok(msl_source.val), e)

length_even(spirv_bytes) == Len(spirv_bytes) % 2 = 0

length_ok(spirv_bytes) == Len(spirv_bytes) % 4 = 0

spirv_bin_to_text(spirv_bytes) ==
    IF ~length_ok(spirv_bytes)
    THEN Outcome(Err(<<"SPIR-V binary length must be multiple of 4">>), <<>>)
    ELSE
      LET module == parse_u8_slice(spirv_bytes)
          e1 == <<Call("front::spv::parse_u8_slice", None)>>
      IN  IF ~module.ok THEN Outcome(Err(<<"SPIR-V parse error: ", module.err>>), e1)
          ELSE
            LET info == validate(module.val)
                e2 == e1 \o <<Call("Validator::validate", None)>>
            IN  IF ~info.ok
                THEN Outcome(Err(<<"SPIR-V validation error: ", info.err>>), e2)
                ELSE
                  LET wgsl_text == wgsl_write_string(module.val, info.val)
                      e3 == e2 \o <<Call("back::wgsl::write_string", None)>>
                  IN  IF ~wgsl_text.ok
                      THEN Outcome(Err(<<"WGSL write error: ", wgsl_text.err>>), e3)
                      ELSE Outcome(Ok(wgsl_text.val), e3)

(***************************************************************************)
(* Reflection Walker                                                       *)
(***************************************************************************)
stage_name(stage) ==
    CASE stage = "Vertex" -> "vertex"
      [] stage = "Fragment" -> "fragment"
      [] stage = "Compute" -> "compute"
      [] stage = "Task" -> "task"
      [] stage = "Mesh" -> "mesh"

\* workgroup size reported for every stage that declares one
workgroup_size_if_declared(entry) ==
    IF entry.stage \in {"Compute", "Task", "Mesh"}
    THEN Some(<<entry.workgroup_size[1], entry.workgroup_size[2], entry.workgroup_size[3]>>)
    ELSE None

workgroup_size_of(entry) ==
    IF entry.stage = "Compute"
    THEN Some(<<entry.workgroup_size[1], entry.workgroup_size[2], entry.workgroup_size[3]>>)
    ELSE None

\* matches!(expr, GlobalVariable(_)): any global reference counts for every handle
uses_any_global(entry, handle) ==
    \E i \in 1..Len(entry.function.expressions) :
        entry.function.expressions[i].kind = "GlobalVariable"

\* entry.function.expressions.iter().any(|(_, expr)| matches!(expr, GlobalVariable(h) if *h == handle))
uses_global(entry, handle) ==
    \E i \in 1..Len(entry.function.expressions) :
        /\ entry.function.expressions[i].kind = "GlobalVariable"
        /\ entry.function.expressions[i].handle = handle

BindingInfo(module, var) ==
    LET binding == unwrap(var.binding)
        classified == classify_binding(module, var)
    IN  [name |-> unwrap_or(var.name, "binding_" \o ToString(binding.group) \o "_"
                                          \o ToString(binding.binding)),
         group |-> binding.group,
         binding |-> binding.binding,
         resource_type |-> classified[1],
         type_name |-> classified[2]]

RECURSIVE collect_bindings(_, _, _)
collect_bindings(module, entry, handle) ==
    IF handle > Len(module.global_variables) THEN <<>>
    ELSE LET var == module.global_variables[handle]
         IN  (IF is_some(var.binding) /\ uses_global(entry, handle)
              THEN <<BindingInfo(module, var)>>
              ELSE <<>>) \o collect_bindings(module, entry, handle + 1)

VertexInputInfo(module, arg) ==
    LET location == unwrap(arg.binding).location
    IN  [name |-> unwrap_or(arg.name, "input_" \o ToString(location)),
         location |-> location,
         type_name |-> unwrap_or(get_type_name(module, arg.ty), "unknown")]

RECURSIVE location_arguments(_, _, _)
location_arguments(module, arguments, i) ==
    IF i > Len(arguments) THEN <<>>
    ELSE (IF is_location(arguments[i].binding)
          THEN <<VertexInputInfo(module, arguments[i])>>
          ELSE <<>>) \o location_arguments(module, arguments, i + 1)

\* vertex inputs collected whatever the stage
collect_inputs_any_stage(module, entry) ==
    location_arguments(module, entry.function.arguments, 1)

collect_vertex_inputs(module, entry) ==
    IF entry.stage = "Vertex"
    THEN location_arguments(module, entry.function.arguments, 1)
    ELSE <<>>

FragmentOutputInfo(module, name, location, ty) ==
    [name |-> name,
     location |-> location,
     type_name |-> unwrap_or(get_type_name(module, ty), "unknown")]

RECURSIVE location_members(_, _, _)
location_members(module, members, i) ==
    IF i > Len(members) THEN <<>>
    ELSE (IF is_location(members[i].binding)
          THEN LET location == unwrap(members[i].binding).location
               IN  <<FragmentOutputInfo(module,
                        unwrap_or(members[i].name, "output_" \o ToString(location)),
                        location, members[i].ty)>>
          ELSE <<>>) \o location_members(module, members, i + 1)

\* fragment outputs taken from struct members only
collect_member_outputs_only(module, entry) ==
    IF entry.stage = "Fragment" /\ is_some(entry.function.result)
    THEN LET result == unwrap(entry.function.result)
         IN  IF module.types[result.ty].inner.kind = "Struct"
             THEN location_members(module, module.types[result.ty].inner.members, 1)
             ELSE <<>>
    ELSE <<>>

collect_fragment_outputs(module, entry) ==
    IF entry.stage = "Fragment" /\ is_some(entry.function.result)
    THEN LET result == unwrap(entry.function.result)
         IN  IF is_location(result.binding)
             THEN <<FragmentOutputInfo(module, "output",
                                       unwrap(result.binding).location, result.ty)>>
             ELSE IF module.types[result.ty].inner.kind = "Struct"
             THEN location_members(module, module.types[result.ty].inner.members, 1)
             ELSE <<>>
    ELSE <<>>

EntryPointInfo(module, entry) ==
    [name |-> entry.name,
     stage |-> stage_name(entry.stage),
     workgroup_size |-> workgroup_size_of(entry),
     bindings |-> collect_bindings(module, entry, 1),
     vertex_inputs |-> collect_vertex_inputs(module, entry),
     fragment_outputs |-> collect_fragment_outputs(module, entry)]

StructMemberInfo(module, member) ==
    [name |-> unwrap_or(member.name, "unnamed"),
     type_name |-> unwrap_or(get_type_name(module, member.ty), "unknown"),
     offset |-> member.offset]

\* format!("{:?}", handle): naga prints a handle as its zero-based index in brackets
handle_debug(handle) == "[" \o ToString(handle - 1) \o "]"

\* an anonymous struct named after its shape instead of its handle
TypeInfo_named_by_shape(module, handle) ==
    LET ty == module.types[handle]
    IN  [name |-> unwrap_or(ty.name, "type_" \o unwrap(get_type_name(module, handle))),
         kind |-> "struct",
         members |-> Some([i \in 1..Len(ty.inner.members) |->
                              StructMemberInfo(module, ty.inner.members[i])])]

TypeInfo(module, handle) ==
    LET ty == module.types[handle]
    IN  [name |-> unwrap_or(ty.name, "type_" \o handle_debug(handle)),
         kind |-> "struct",
         members |-> Some([i \in 1..Len(ty.inner.members) |->
                              StructMemberInfo(module, ty.inner.members[i])])]

RECURSIVE collect_types(_, _)
collect_types(module, handle) ==
    IF handle > Len(module.types) THEN <<>>
    ELSE (IF module.types[handle].inner.kind = "Struct"
          THEN <<TypeInfo(module, handle)>>
          ELSE <<>>) \o collect_types(module, handle + 1)

reflect_wgsl(wgsl) ==
    LET pv == parse_and_validate(wgsl)
    IN  IF ~pv.ret.ok THEN Outcome(Err(pv.ret.err), pv.ext)
        ELSE LET module == pv.ret.val.module
             IN  Outcome(Ok([entry_points |->
                                [i \in 1..Len(module.entry_points) |->
                                    EntryPointInfo(module, module.entry_points[i])],
                             types |-> collect_types(module, 1)]),
                         pv.ext)

(***************************************************************************)
(* Inputs: validated modules of the shapes the WGSL front end produces.    *)
(***************************************************************************)
StdTypes == <<
    Type(None, TScalar(F32)),                                           \* 1
    Type(None, TScalar(U32)),                                           \* 2
    Type(None, TVector(4, F32)),                                        \* 3
    Type(None, TMatrix(4, 4, F32)),                                     \* 4
    Type(Some("Uniforms"), TStruct(<<
        Member(Some("mvp"), 4, None, 0),
        Member(Some("tint"), 3, None, 64)>>)),                          \* 5
    Type(None, TArray(3, SizeDynamic)),                                 \* 6
    Type(None, TImage("D2", FALSE, [kind |-> "Sampled", multi |-> FALSE])), \* 7
    Type(None, TSampler(FALSE)),                                        \* 8
    Type(Some("FragOut"), TStruct(<<
        Member(Some("color"), 3, Some(Location(1)), 0),
        Member(Some("depth"), 1, Some(BuiltIn("frag_depth")), 16),
        Member(None, 3, Some(Location(0)), 32)>>)),                     \* 9
    Type(None, TStruct(<<
        Member(Some("depth"), 1, Some(BuiltIn("frag_depth")), 0)>>)),   \* 10
    Type(None, TAtomic(U32)),                                           \* 11
    Type(None, TArray(1, SizeConstant(4))),                             \* 12
    Type(None, TBindingArray(7, SizeConstant(2))),                      \* 13
    Type(None, TAccelerationStructure),                                 \* 14
    Type(None, TRayQuery),                                              \* 15
    Type(None, TPointer(1, Space("Function"))),                         \* 16
    Type(Some("VertexIn"), TStruct(<<
        Member(Some("pos"), 3, Some(Location(0)), 0),
        Member(Some("uv"), 3, Some(Location(1)), 16)>>))                \* 17
>>

Module(types, global_variables, functions, entry_points) ==
    [types |-> types, global_variables |-> global_variables, functions |-> functions,
     entry_points |-> entry_points, validation_error |-> None]

Function(arguments, result, expressions, body) ==
    [arguments |-> arguments, result |-> result, expressions |-> expressions, body |-> body]

Lowerable(code) == [lowerable |-> TRUE, code |-> code]
Unlowerable == [lowerable |-> FALSE, code |-> Word(0, 0)]

EntryPoint(name, stage, workgroup_size, function) ==
    [name |-> name, stage |-> stage, workgroup_size |-> workgroup_size, function |-> function]

EntryName(i) == "main_" \o ToString(i)

Stages == {"Vertex", "Fragment", "Compute", "Task", "Mesh"}

\* Facade family: modules that differ in their entry points' stage, workgroup
\* size and body.
EntryShapes == {
    [stage |-> "Vertex", workgroup_size |-> <<0, 0, 0>>, body |-> Lowerable(Word(258, 772))],
    [stage |-> "Fragment", workgroup_size |-> <<0, 0, 0>>, body |-> Lowerable(Word(65535, 65280))],
    [stage |-> "Fragment", workgroup_size |-> <<0, 0, 0>>, body |-> Unlowerable],
    [stage |-> "Compute", workgroup_size |-> <<8, 8, 1>>, body |-> Lowerable(Word(258, 772))],
    [stage |-> "Compute", workgroup_size |-> <<1, 2, 3>>, body |-> Lowerable(Word(32768, 0))],
    [stage |-> "Task", workgroup_size |-> <<1, 2, 3>>, body |-> Lowerable(Word(0, 255))],
    [stage |-> "Mesh", workgroup_size |-> <<8, 8, 1>>, body |-> Lowerable(Word(255, 1))]}

FacadeModules ==
    {Module(StdTypes, <<>>, <<>>,
            [i \in 1..Len(s) |->
                EntryPoint(EntryName(i), s[i].stage, s[i].workgroup_size,
                           Function(<<>>, None, <<>>, s[i].body))])
        : s \in SeqsUpTo(EntryShapes, MaxEntries)}

\* Binding family: modules that differ in their global variables, in the
\* expressions of the first entry point and in those of a helper function.
GlobalShapes == {
    [name |-> Some("uniforms"), space |-> Space("Uniform"), group |-> Some(0), ty |-> 5],
    [name |-> None, space |-> StorageSpace("LOAD_STORE"), group |-> Some(1), ty |-> 6],
    [name |-> Some("tex"), space |-> Space("Handle"), group |-> Some(0), ty |-> 7],
    [name |-> Some("counter"), space |-> Space("Private"), group |-> None, ty |-> 1]}

GlobalVariableAt(shape, i) ==
    [name |-> shape.name, space |-> shape.space, ty |-> shape.ty,
     binding |-> IF is_some(shape.group)
                 THEN Some([group |-> unwrap(shape.group), binding |-> i - 1])
                 ELSE None]

GlobalVariable(h) == [kind |-> "GlobalVariable", handle |-> h]
CallResult(f) == [kind |-> "CallResult", handle |-> f]

BindingModule(globals, exprs, helper_exprs) ==
    LET n == Len(globals)
    IN  Module(StdTypes,
               [i \in 1..n |-> GlobalVariableAt(globals[i], i)],
               <<Function(<<>>, Some([ty |-> 1, binding |-> None]), helper_exprs,
                          Lowerable(Word(0, 0)))>>,
               <<EntryPoint(EntryName(1), "Compute", <<8, 8, 1>>,
                            Function(<<>>, None, exprs, Lowerable(Word(0, 0)))),
                 EntryPoint(EntryName(2), "Fragment", <<0, 0, 0>>,
                            Function(<<>>, None,
                                     IF n > 0 THEN <<GlobalVariable(n)>> ELSE <<>>,
                                     Lowerable(Word(0, 0))))>>)

GlobalSeqs == SeqsUpTo(GlobalShapes, MaxGlobals)

EntryExprs(globals) ==
    SeqsUpTo({GlobalVariable(h) : h \in 1..Len(globals)} \cup {CallResult(1)}, MaxExprs)

HelperExprs(globals) ==
    {<<>>} \cup {<<GlobalVariable(h)>> : h \in 1..Len(globals) \cap {1}}

\* Interface family: modules with one entry point that differ in its stage,
\* arguments and result.
ArgShapes == {
    [name |-> Some("position"), ty |-> 3, binding |-> Some(Location(1))],
    [name |-> None, ty |-> 3, binding |-> Some(Location(0))],
    [name |-> Some("index"), ty |-> 2, binding |-> Some(BuiltIn("vertex_index"))],
    [name |-> Some("in"), ty |-> 17, binding |-> None]}

ResultShapes == {
    None,
    Some([ty |-> 3, binding |-> Some(Location(0))]),
    Some([ty |-> 1, binding |-> Some(Location(2))]),
    Some([ty |-> 3, binding |-> Some(BuiltIn("position"))]),
    Some([ty |-> 9, binding |-> None]),
    Some([ty |-> 10, binding |-> None])}

InterfaceModules ==
    {Module(StdTypes, <<>>, <<>>,
            <<EntryPoint(EntryName(1), stage,
                         IF stage \in {"Vertex", "Fragment"} THEN <<0, 0, 0>> ELSE <<8, 8, 1>>,
                         Function(arguments, result, <<>>, Lowerable(Word(0, 0))))>>)
        : stage \in Stages, arguments \in InjSeqsUpTo(ArgShapes, MaxArgs),
          result \in ResultShapes}

\* Source texts, each with what the WGSL front end makes of it.
Source(module) == [parse |-> Ok(module)]
ParseErrorSource == [parse |-> Err("expected ';'")]
Invalid(module) == [module EXCEPT !.validation_error = Some("InvalidType")]

FacadeSources ==
    {Source(m) : m \in FacadeModules}
        \cup {Source(Invalid(m)) : m \in {x \in FacadeModules : Len(x.entry_points) <= 1}}
        \cup {ParseErrorSource}

EntryPointArgs ==
    {None, Some(""), Some("main_unused")} \cup {Some(EntryName(i)) : i \in 1..MaxEntries}

MagicBytes == to_le_bytes(SpvMagic)

ByteInputs ==
    UNION {{[i \in 1..k |-> IF i \in S THEN MagicBytes[((i - 1) % 4) + 1] ELSE 0]
              : S \in SUBSET (1..k)}
        : k \in 0..MaxBytes}

\* Every type shape, ValuePointer included, for the classifier.
ClassifyTypes ==
    StdTypes \o <<Type(None, TValuePointer(Some(4), F32, Space("Function"))),
                  Type(Some("Alias"), TVector(2, U32))>>

ClassifyVars ==
    {[name |-> None, space |-> space, ty |-> ty, binding |-> binding]
        : space \in AddressSpaces, ty \in 1..Len(ClassifyTypes),
          binding \in {None, Some([group |-> 0, binding |-> 1])}}

\* Type-table family: tables that differ in the types built over others.  The
\* first four types are the scalar f32, a named struct and two distinct
\* anonymous structs; each further type is a Pointer, Array or BindingArray
\* (anonymous, of every size kind) or a named array, whose base is an earlier
\* type, as in a naga arena, where a type is appended after the types it uses.
LeafTypes == <<
    Type(None, TScalar(F32)),                                           \* 1
    Type(Some("Light"), TStruct(<<
        Member(Some("position"), 1, None, 0),
        Member(None, 1, None, 16)>>)),                                  \* 2
    Type(None, TStruct(<<
        Member(Some("x"), 1, None, 0)>>)),                              \* 3
    Type(None, TStruct(<<
        Member(Some("y"), 1, None, 0),
        Member(Some("z"), 1, None, 4)>>))                               \* 4
>>

WrappersOf(base) == {
    Type(None, TPointer(base, Space("Function"))),
    Type(None, TArray(base, SizeConstant(4))),
    Type(None, TArray(base, SizeDynamic)),
    Type(None, TArray(base, SizePending)),
    Type(None, TBindingArray(base, SizeConstant(2))),
    Type(None, TBindingArray(base, SizeDynamic)),
    Type(None, TBindingArray(base, SizePending)),
    Type(Some("Samples"), TArray(base, SizeConstant(4)))}

\* The first built type is over the scalar, the named struct or an anonymous
\* struct; each further one is over the type just before it or the named struct.
BasesIn(types) == IF Len(types) = Len(LeafTypes) THEN {1, 2, 3} ELSE {2, Len(types)}

\* The tables with n built types.
RECURSIVE TypeTables(_)
TypeTables(n) ==
    IF n = 0 THEN {LeafTypes}
    ELSE UNION {{Append(types, ty) : ty \in UNION {WrappersOf(base) : base \in BasesIn(types)}}
                   : types \in TypeTables(n - 1)}

\* A module over a type table: a struct holding a member of the table's last
\* type is appended, a storage buffer of that last type is bound at (0, 0) and
\* used by the compute entry point or by none, and a vertex and a fragment
\* entry point take and return an f32 at location 0.
TypeTableModule(types, used) ==
    LET last == Len(types)
    IN  Module(Append(types, Type(Some("Block"), TStruct(<<
                   Member(Some("data"), last, None, 0),
                   Member(Some("scale"), 1, None, 64)>>))),
               <<[name |-> Some("data"), space |-> StorageSpace("LOAD"), ty |-> last,
                  binding |-> Some([group |-> 0, binding |-> 0])]>>,
               <<>>,
               <<EntryPoint(EntryName(1), "Compute", <<8, 8, 1>>,
                            Function(<<>>, None,
                                     IF used THEN <<GlobalVariable(1)>> ELSE <<>>,
                                     Lowerable(Word(0, 0)))),
                 EntryPoint(EntryName(2), "Vertex", <<0, 0, 0>>,
                            Function(<<[name |-> Some("x"), ty |-> 1,
                                        binding |-> Some(Location(0))]>>,
                                     None, <<>>, Lowerable(Word(0, 0)))),
                 EntryPoint(EntryName(3), "Fragment", <<0, 0, 0>>,
                            Function(<<>>, Some([ty |-> 1, binding |-> Some(Location(0))]),
                                     <<>>, Lowerable(Word(0, 0))))>>)

(***************************************************************************)
(* The calls                                                               *)
(***************************************************************************)
Init ==
    /\ op = "none"
    /\ args = <<>>
    /\ ret = <<>>
    /\ ext = <<>>
    /\ stack = <<>>

Returned(name, a, outcome) ==
    /\ op' = name
    /\ args' = a
    /\ ret' = outcome.ret
    /\ ext' = outcome.ext
    /\ UNCHANGED stack

IsWgslValid ==
    /\ op = "none"
    /\ \E wgsl \in FacadeSources :
          Returned("isWgslValid", <<wgsl>>, is_wgsl_valid(wgsl))

ValidateWgsl ==
    /\ op = "none"
    /\ \E wgsl \in FacadeSources :
          Returned("validateWgsl", <<wgsl>>, validate_wgsl(wgsl))

WgslToSpirvBin ==
    /\ op = "none"
    /\ \E wgsl \in FacadeSources, entry_point \in EntryPointArgs :
          Returned("wgslToSpirvBin", <<wgsl, entry_point>>,
                   wgsl_to_spirv_bin(wgsl, entry_point))

WgslToMsl ==
    /\ op = "none"
    /\ \E wgsl \in FacadeSources, entry_point \in EntryPointArgs :
          Returned("wgslToMsl", <<wgsl, entry_point>>, wgsl_to_msl(wgsl, entry_point))

\* On bytes of the caller's, or on the bytes wgslToSpirvBin just returned.
SpirvBinToText ==
    /\ op \in {"none", "wgslToSpirvBin"}
    /\ op = "wgslToSpirvBin" => ret.ok
    /\ \E spirv_bytes \in IF op = "none" THEN ByteInputs ELSE {ret.val} :
          Returned("spirvBinToText", <<spirv_bytes>>, spirv_bin_to_text(spirv_bytes))

ReflectWgsl ==
    /\ op = "none"
    /\ \/ \E wgsl \in FacadeSources :
             Returned("reflectWgsl", <<wgsl>>, reflect_wgsl(wgsl))
       \/ \E module \in InterfaceModules :
             Returned("reflectWgsl", <<Source(module)>>, reflect_wgsl(Source(module)))
       \/ \E globals \in GlobalSeqs :
             \E exprs \in EntryExprs(globals), helper_exprs \in HelperExprs(globals) :
                LET wgsl == Source(BindingModule(globals, exprs, helper_exprs))
                IN  Returned("reflectWgsl", <<wgsl>>, reflect_wgsl(wgsl))
       \/ \E n \in 0..MaxChain, used \in BOOLEAN :
             \E types \in TypeTables(n) :
                LET wgsl == Source(TypeTableModule(types, used))
                IN  Returned("reflectWgsl", <<wgsl>>, reflect_wgsl(wgsl))

Next ==
    \/ IsWgslValid
    \/ ValidateWgsl
    \/ WgslToSpirvBin
    \/ WgslToMsl
    \/ SpirvBinToText
    \/ ReflectWgsl

Spec == Init /\ [][Next]_vars

\* The classifier on its own, over every type shape and address space.
ClassifyBinding ==
    /\ op = "none"
    /\ \E var \in ClassifyVars :
          LET module == Module(ClassifyTypes, <<var>>, <<>>, <<>>)
          IN  Returned("classify_binding", <<module, var>>,
                       Outcome(classify_binding(module, var), <<>>))

NextClassify == ClassifyBinding

SpecClassify == Init /\ [][NextClassify]_vars

\* The type namer run frame by frame.  A frame is one activation of
\* get_type_name: the handle it names and whether it is waiting for the
\* recursive call on its base; ret holds what the last finished activation
\* returned.
Frame(handle, waiting) == [handle |-> handle, waiting |-> waiting]

GetTypeName ==
    /\ op = "none"
    /\ \E n \in 0..MaxChain :
          \E types \in TypeTables(n) :
             \E handle \in 1..Len(types) :
                /\ op' = "get_type_name"
                /\ args' = <<Module(types, <<>>, <<>>, <<>>), handle>>
                /\ ret' = None
                /\ ext' = <<>>
                /\ stack' = <<Frame(handle, FALSE)>>

\* let base_name = get_type_name(module, base)?: the top activation calls itself on its base
RecurseOnBase ==
    /\ op = "get_type_name"
    /\ stack # <<>>
    /\ LET top == stack[Len(stack)]
           ty == args[1].types[top.handle]
       IN  /\ ~top.waiting
           /\ needs_base(ty)
           /\ stack' = [stack EXCEPT ![Len(stack)].waiting = TRUE]
                            \o <<Frame(ty.inner.base, FALSE)>>
    /\ UNCHANGED <<op, args, ret, ext>>

\* The top activation returns: at once when it needs no base name, otherwise
\* with the name built from what the call on its base returned.
ReturnName ==
    /\ op = "get_type_name"
    /\ stack # <<>>
    /\ LET top == stack[Len(stack)]
           ty == args[1].types[top.handle]
       IN  /\ top.waiting \/ ~needs_base(ty)
           /\ ret' = type_name_with(ty, IF top.waiting THEN ret ELSE None)
           /\ stack' = SubSeq(stack, 1, Len(stack) - 1)
    /\ UNCHANGED <<op, args, ext>>

NextNamer ==
    \/ GetTypeName
    \/ RecurseOnBase
    \/ ReturnName
    \/ ReflectWgsl

\* An activation that can take a step takes it: the function runs to completion.
SpecNamer == Init /\ [][NextNamer]_vars /\ WF_vars(RecurseOnBase \/ ReturnName)

(***************************************************************************)
(* Properties                                                              *)
(***************************************************************************)
\* What the call in the state was made on.
ParsedOk == args[1].parse.ok
ValidOk == ParsedOk /\ is_none(args[1].parse.val.validation_error)
TheModule == args[1].parse.val
Reflected == op = "reflectWgsl" /\ ret.ok
Entries == 1..Len(TheModule.entry_points)
Compiling == op \in {"wgslToSpirvBin", "wgslToMsl"}
CodegenCalls ==
    {k \in 1..Len(ext) : ext[k].fn \in {"back::spv::write_vec", "back::msl::write_string"}}

\* Locations of the location-bound items of a sequence of arguments or members, in order.
RECURSIVE LocationsFrom(_, _)
LocationsFrom(items, i) ==
    IF i > Len(items) THEN <<>>
    ELSE LET b == items[i].binding
         IN  (IF Len(b) = 1 /\ b[1].kind = "Location" THEN <<b[1].location>> ELSE <<>>)
                 \o LocationsFrom(items, i + 1)

LocationsOf(items) == LocationsFrom(items, 1)

LocationsIn(infos) == [k \in 1..Len(infos) |-> infos[k].location]

\* C1: an entry point's bindings hold exactly one BindingInfo, with the declared
\* group and binding, for each global that carries a resource binding and is
\* referenced by a GlobalVariable expression of the entry point's own function,
\* and nothing else: no global used only by a called helper, no unbound global.
Qualifies(entry, h) ==
    /\ is_some(TheModule.global_variables[h].binding)
    /\ \E x \in 1..Len(entry.function.expressions) :
          entry.function.expressions[x] = GlobalVariable(h)

\* The BindingInfos of info that stand for global h: for a bound global those
\* with its group and binding, for an unbound one those with its name.
ReportedFor(info, h) ==
    LET var == TheModule.global_variables[h]
    IN  {k \in 1..Len(info.bindings) :
            IF is_some(var.binding)
            THEN /\ info.bindings[k].group = unwrap(var.binding).group
                 /\ info.bindings[k].binding = unwrap(var.binding).binding
            ELSE is_some(var.name) /\ info.bindings[k].name = unwrap(var.name)}

BindingsFollowDirectUse ==
    Reflected =>
        /\ Len(ret.val.entry_points) = Len(TheModule.entry_points)
        /\ \A i \in Entries :
              LET entry == TheModule.entry_points[i]
                  info == ret.val.entry_points[i]
                  globals == 1..Len(TheModule.global_variables)
              IN  /\ \A h \in globals :
                        Cardinality(ReportedFor(info, h))
                            = IF Qualifies(entry, h) THEN 1 ELSE 0
                  /\ Len(info.bindings) = Cardinality({h \in globals : Qualifies(entry, h)})

\* A helper references bound global 1, the entry point calls the helper without
\* referencing global 1 itself and references an unbound global; it reports
\* neither.
HelperAndUnboundNotReported ==
    /\ Reflected
    /\ Len(TheModule.global_variables) = 2
    /\ is_some(TheModule.global_variables[1].binding)
    /\ is_none(TheModule.global_variables[2].binding)
    /\ TheModule.functions # <<>>
    /\ TheModule.functions[1].expressions = <<GlobalVariable(1)>>
    /\ TheModule.entry_points[1].function.expressions = <<CallResult(1), GlobalVariable(2)>>
    /\ ret.val.entry_points[1].bindings = <<>>
    /\ Len(ret.val.entry_points[2].bindings) = 0

\* C2: classify_binding returns the category of the first rule of the 12-rule
\* table that matches the (type shape, address space) pair, and "unknown"
\* exactly when none of rules 1-11 matches.
ValueShapes == {"Scalar", "Vector", "Matrix", "Array"}

RuleMatches(n, shape, space) ==
    CASE n = 1 -> shape = "Struct" /\ space.kind = "Uniform"
      [] n = 2 -> shape = "Struct" /\ space.kind = "Storage"
      [] n = 3 -> shape = "Image"
      [] n = 4 -> shape = "Sampler"
      [] n = 5 -> shape = "Atomic"
      [] n = 6 -> shape \in ValueShapes /\ space.kind = "Uniform"
      [] n = 7 -> shape \in ValueShapes /\ space.kind = "Storage"
      [] n = 8 -> shape = "BindingArray"
      [] n = 9 -> shape = "AccelerationStructure"
      [] n = 10 -> shape = "RayQuery"
      [] n = 11 -> shape = "Pointer"
      [] n = 12 -> TRUE

RuleCategory ==
    <<"uniform", "storage", "texture", "sampler", "atomic", "uniform", "storage",
      "binding_array", "acceleration_structure", "ray_query", "pointer", "unknown">>

FirstMatch(shape, space) ==
    CHOOSE n \in 1..12 :
        /\ RuleMatches(n, shape, space)
        /\ \A m \in 1..(n - 1) : ~RuleMatches(m, shape, space)

ClassifiedShape == args[1].types[args[2].ty].inner.kind

ClassifierFollowsTable ==
    op = "classify_binding" =>
        /\ ret[1] = RuleCategory[FirstMatch(ClassifiedShape, args[2].space)]
        /\ ret[1] = "unknown"
              <=> \A n \in 1..11 : ~RuleMatches(n, ClassifiedShape, args[2].space)

UnknownForStructOutsideBuffers ==
    /\ op = "classify_binding"
    /\ ClassifiedShape = "Struct"
    /\ args[2].space.kind = "Private"
    /\ ret[1] = "unknown"

\* C3: a fragment entry point's outputs are: one entry named "output" with the
\* result's location when the result is location-bound; else, for a struct
\* result, one entry per location-bound member in declaration order; else none.
FragmentOutputCases ==
    Reflected =>
        \A i \in Entries :
            LET entry == TheModule.entry_points[i]
                result == entry.function.result
                outputs == ret.val.entry_points[i].fragment_outputs
            IN  entry.stage = "Fragment" =>
                  IF is_some(result) /\ is_location(unwrap(result).binding)
                  THEN /\ Len(outputs) = 1
                       /\ outputs[1].name = "output"
                       /\ outputs[1].location = unwrap(unwrap(result).binding).location
                  ELSE IF is_some(result)
                          /\ TheModule.types[unwrap(result).ty].inner.kind = "Struct"
                  THEN LocationsIn(outputs)
                          = LocationsOf(TheModule.types[unwrap(result).ty].inner.members)
                  ELSE outputs = <<>>

\* A struct result with members at location 1, a builtin and location 0 gives
\* the two location-bound members, in that order.
StructResultSkipsBuiltin ==
    /\ Reflected
    /\ Len(TheModule.entry_points) = 1
    /\ TheModule.entry_points[1].stage = "Fragment"
    /\ TheModule.entry_points[1].function.result = Some([ty |-> 9, binding |-> None])
    /\ LocationsIn(ret.val.entry_points[1].fragment_outputs) = <<1, 0>>
    /\ ret.val.entry_points[1].fragment_outputs[2].name = "output_0"

\* C4: vertex_inputs is non-empty only for a vertex entry point and
\* fragment_outputs only for a fragment one; the vertex inputs are the
\* location-bound arguments, in declaration order; both lists are always
\* there, empty when nothing qualifies.
InterfaceListsByStage ==
    Reflected =>
        \A i \in Entries :
            LET entry == TheModule.entry_points[i]
                info == ret.val.entry_points[i]
            IN  /\ {"vertex_inputs", "fragment_outputs"} \subseteq DOMAIN info
                /\ info.vertex_inputs # <<>> => entry.stage = "Vertex"
                /\ info.fragment_outputs # <<>> => entry.stage = "Fragment"
                /\ entry.stage = "Vertex" =>
                      LocationsIn(info.vertex_inputs) = LocationsOf(entry.function.arguments)
                /\ LocationsOf(entry.function.arguments) = <<>> => info.vertex_inputs = <<>>

\* A vertex entry point with a builtin argument and one at location 1 reports
\* the latter alone.
VertexInputSkipsBuiltin ==
    /\ Reflected
    /\ Len(TheModule.entry_points) = 1
    /\ TheModule.entry_points[1].stage = "Vertex"
    /\ Len(TheModule.entry_points[1].function.arguments) = 2
    /\ is_some(TheModule.entry_points[1].function.arguments[1].binding)
    /\ unwrap(TheModule.entry_points[1].function.arguments[1].binding).kind = "BuiltIn"
    /\ LocationsIn(ret.val.entry_points[1].vertex_inputs) = <<1>>
    /\ ret.val.entry_points[1].fragment_outputs = <<>>

\* C5: workgroup_size is present exactly for compute entry points, and is then
\* the declared triple.
WorkgroupSizeOnlyForCompute ==
    Reflected =>
        \A i \in Entries :
            LET entry == TheModule.entry_points[i]
                info == ret.val.entry_points[i]
            IN  /\ is_some(info.workgroup_size) <=> entry.stage = "Compute"
                /\ is_some(info.workgroup_size) =>
                      unwrap(info.workgroup_size) = entry.workgroup_size

\* A compute entry point with size (1, 2, 3) beside a mesh entry point that
\* declares a size of its own.
ComputeBesideMesh ==
    /\ Reflected
    /\ Len(TheModule.entry_points) = 2
    /\ TheModule.entry_points[1].stage = "Compute"
    /\ TheModule.entry_points[2].stage = "Mesh"
    /\ TheModule.entry_points[2].workgroup_size = <<8, 8, 1>>
    /\ ret.val.entry_points[1].workgroup_size = Some(<<1, 2, 3>>)
    /\ ret.val.entry_points[2].workgroup_size = None

\* C6: a compile called with Some("") returns what the same compile returns
\* for None on the same source and invokes the same primitives, the code
\* generator without an entry-point restriction.
EmptyNameSameAsNone ==
    (Compiling /\ args[2] = Some("")) =>
        LET absent == IF op = "wgslToSpirvBin"
                      THEN wgsl_to_spirv_bin(args[1], None)
                      ELSE wgsl_to_msl(args[1], None)
        IN  /\ ret = absent.ret
            /\ ext = absent.ext
            /\ \A k \in CodegenCalls : ext[k].arg = None

\* The empty name compiles a module of two entry points to binary.
EmptyNameCompilesAll ==
    /\ op = "wgslToSpirvBin"
    /\ args[2] = Some("")
    /\ ret.ok
    /\ Len(TheModule.entry_points) = 2
    /\ Len(ret.val) = 20

\* C7: on a valid source, a non-empty name that no entry point carries gives
\* the not-found error holding the name, without a call of the code generator;
\* a name an entry point carries restricts the one code-generator call to that
\* name and that entry point's stage.
NamedEntryPointResolved ==
    (Compiling /\ ValidOk /\ is_some(args[2]) /\ unwrap(args[2]) # "") =>
        LET name == unwrap(args[2])
            named == {i \in Entries : TheModule.entry_points[i].name = name}
        IN  IF named = {}
            THEN /\ ~ret.ok
                 /\ ret.err = <<"Entry point '", name, "' not found">>
                 /\ CodegenCalls = {}
            ELSE /\ Cardinality(CodegenCalls) = 1
                 /\ \A k \in CodegenCalls, i \in named :
                       ext[k].arg = Some([shader_stage |-> TheModule.entry_points[i].stage,
                                          entry_point |-> name])

MissingNameRejected ==
    /\ op = "wgslToSpirvBin"
    /\ ValidOk
    /\ Len(TheModule.entry_points) = 2
    /\ args[2] = Some("main_unused")
    /\ ~ret.ok
    /\ ret.err[2] = "main_unused"
    /\ CodegenCalls = {}

\* C8: spirv_bin_to_text rejects a length that is no multiple of 4 with the
\* length error before it invokes anything; any other length, 0 included,
\* reaches the binary parser.
LengthCheckedBeforeParsing ==
    op = "spirvBinToText" =>
        IF Len(args[1]) % 4 # 0
        THEN /\ ~ret.ok
             /\ ret.err = <<"SPIR-V binary length must be multiple of 4">>
             /\ ext = <<>>
        ELSE /\ ext # <<>>
             /\ ext[1].fn = "front::spv::parse_u8_slice"

SixBytesRejected ==
    /\ op = "spirvBinToText"
    /\ Len(args[1]) = 6
    /\ SubSeq(args[1], 1, 4) = MagicBytes
    /\ ~ret.ok
    /\ ext = <<>>

\* C9: a successful wgsl_to_spirv_bin returns 4 bytes per generated word, byte
\* 4k+j being (word_k >> 8j) mod 256, so its length is a multiple of 4 and
\* spirv_bin_to_text lets it through to the parser.
ByteOf(w, j) == ((IF j < 2 THEN w.lo ELSE w.hi) \div (IF j % 2 = 0 THEN 1 ELSE 256)) % 256

GeneratedWords ==
    LET k == CHOOSE c \in CodegenCalls : TRUE
    IN  spv_write_vec(TheModule, "ModuleInfo", ext[k].arg).val

WordsLittleEndian ==
    (op = "wgslToSpirvBin" /\ ret.ok) =>
        /\ Len(ret.val) = 4 * Len(GeneratedWords)
        /\ \A k \in 0..(Len(GeneratedWords) - 1), j \in 0..3 :
              ret.val[4 * k + j + 1] = ByteOf(GeneratedWords[k + 1], j)
        /\ Len(ret.val) % 4 = 0
        /\ spirv_bin_to_text(ret.val).ext # <<>>

\* The bytes of a two-entry-point module, one word with its top bit set.
TwoEntryPointsInBytes ==
    /\ op = "wgslToSpirvBin"
    /\ ret.ok
    /\ Len(ret.val) = 20
    /\ SubSeq(ret.val, 1, 4) = <<3, 2, 35, 7>>
    /\ SubSeq(ret.val, 17, 20) = <<0, 0, 0, 128>>

\* C10: is_wgsl_valid returns a boolean, true exactly when validate_wgsl
\* succeeds on the text, false when parsing or validation fails; validate_wgsl
\* fails in exactly those two cases and otherwise returns nothing.
ValidityFoldsErrors ==
    /\ op = "isWgslValid" =>
          /\ ret \in BOOLEAN
          /\ ret <=> ValidOk
          /\ ret <=> validate_wgsl(args[1]).ret.ok
    /\ op = "validateWgsl" =>
          /\ ret.ok <=> ValidOk
          /\ ret.ok => ret.val = <<>>
          /\ ~ret.ok =>
                ret.err = IF ParsedOk THEN <<unwrap(TheModule.validation_error)>>
                          ELSE <<args[1].parse.err>>

InvalidModuleIsFalse ==
    /\ op = "isWgslValid"
    /\ ParsedOk
    /\ ~ValidOk
    /\ ret = FALSE

\* A finished run of get_type_name, the type it was asked to name and that
\* type's base.
Named == op = "get_type_name" /\ stack = <<>>
NamedType == args[1].types[args[2]]
BaseType == args[1].types[NamedType.inner.base]

\* The name an anonymous Pointer, Array or BindingArray embeds for its base:
\* the base's declared name, else the name of the base's shape.
EmbeddedName ==
    IF is_some(BaseType.name) THEN unwrap(BaseType.name)
    ELSE IF BaseType.inner.kind = "Struct" THEN "struct"
    ELSE unwrap(get_type_name(args[1], NamedType.inner.base))

\* The length, present for a fixed-constant size only.
LengthPart ==
    IF NamedType.inner.size.kind = "Constant"
    THEN ", " \o ToString(NamedType.inner.size.n)
    ELSE ""

\* C11: get_type_name returns the declared name of a named type whatever its
\* shape; the name of an anonymous Pointer, Array or BindingArray embeds the
\* declared name of a named base and the structural name of an anonymous one
\* ("struct" for an anonymous struct), at every level, and carries the length
\* only when the size is a fixed constant.
DeclaredNameTakesPrecedence ==
    Named =>
        /\ ret = get_type_name(args[1], args[2])
        /\ is_some(NamedType.name) => ret = Some(unwrap(NamedType.name))
        /\ is_none(NamedType.name) /\ NamedType.inner.kind = "Struct" => ret = Some("struct")
        /\ is_none(NamedType.name) /\ NamedType.inner.kind = "Pointer" =>
               ret = Some("ptr<" \o space_name(NamedType.inner.space) \o ", "
                              \o EmbeddedName \o ">")
        /\ is_none(NamedType.name) /\ NamedType.inner.kind = "Array" =>
               ret = Some("array<" \o EmbeddedName \o LengthPart \o ">")
        /\ is_none(NamedType.name) /\ NamedType.inner.kind = "BindingArray" =>
               ret = Some("binding_array<" \o EmbeddedName \o LengthPart \o ">")

\* An anonymous runtime-sized array of an anonymous array of four of the named
\* struct, named through two levels of recursion.
ArrayOfArrayOfNamedStruct ==
    /\ Named
    /\ is_none(NamedType.name) /\ NamedType.inner.kind = "Array"
    /\ NamedType.inner.size.kind = "Dynamic"
    /\ is_none(BaseType.name) /\ BaseType.inner.kind = "Array"
    /\ BaseType.inner.size.kind = "Constant"
    /\ is_some(args[1].types[BaseType.inner.base].name)
    /\ ret = Some("array<array<Light, 4>>")

\* The number of types on the base chain that starts at a handle: the type,
\* the base of a Pointer, Array or BindingArray, the base of that, and so on.
RECURSIVE ChainLength(_, _)
ChainLength(module, handle) ==
    LET inner == module.types[handle].inner
    IN  IF inner.kind \in {"Pointer", "Array", "BindingArray"}
        THEN 1 + ChainLength(module, inner.base)
        ELSE 1

Naming == op = "get_type_name" /\ stack # <<>>

\* Each activation but the first was called by the one below it, on the base
\* of the Pointer, Array or BindingArray that one names.
RecursionFollowsBases ==
    /\ stack[1].handle = args[2]
    /\ \A i \in 2..Len(stack) :
          LET caller == args[1].types[stack[i - 1].handle].inner
          IN  /\ caller.kind \in {"Pointer", "Array", "BindingArray"}
              /\ stack[i].handle = caller.base

\* What reflectWgsl reports never carries the fallback name, and every
\* binding carries a type name.
NoFallbackReported ==
    /\ \A e \in 1..Len(ret.val.entry_points) :
          LET info == ret.val.entry_points[e]
          IN  /\ \A i \in 1..Len(info.vertex_inputs) :
                    info.vertex_inputs[i].type_name # "unknown"
              /\ \A i \in 1..Len(info.fragment_outputs) :
                    info.fragment_outputs[i].type_name # "unknown"
              /\ \A i \in 1..Len(info.bindings) : is_some(info.bindings[i].type_name)
    /\ \A t \in 1..Len(ret.val.types) :
          LET members == unwrap(ret.val.types[t].members)
          IN  \A i \in 1..Len(members) : members[i].type_name # "unknown"

NamerWithinChain ==
    /\ Naming => Len(stack) <= ChainLength(args[1], args[2]) /\ RecursionFollowsBases
    /\ Named => is_some(ret)
    /\ Reflected => NoFallbackReported

\* C12: on a type table whose base references point to earlier types,
\* get_type_name recurses through the bases of Pointer, Array and BindingArray
\* types only, never deeper than the base chain of the handle is long, every
\* run of it ends, and it ends with a name; so reflectWgsl never reports the
\* fallback "unknown" as a type name and every binding has a type name.
NamerTerminatesWithAName == [](NamerWithinChain) /\ (Naming ~> Named)

\* The recursion at its deepest: as many activations as the bound allows
\* types on a base chain.
DeepestRecursion ==
    /\ Naming
    /\ Len(stack) = MaxChain + 1
    /\ ChainLength(args[1], args[2]) = MaxChain + 1

\* The handles of the struct types of the module reflected, and the t-th of
\* them in the order of the type table.
StructHandles == {h \in 1..Len(TheModule.types) : TheModule.types[h].inner.kind = "Struct"}
StructHandle(t) ==
    CHOOSE h \in StructHandles : Cardinality({g \in StructHandles : g <= h}) = t

\* The t-th TypeInfo describes the t-th struct: kind, name, and the members
\* in declaration order with their byte offsets.
DescribesStruct(info, handle) ==
    LET ty == TheModule.types[handle]
        members == unwrap(info.members)
    IN  /\ info.kind = "struct"
        /\ info.name = IF is_some(ty.name) THEN unwrap(ty.name)
                        ELSE "type_" \o handle_debug(handle)
        /\ is_some(info.members)
        /\ Len(members) = Len(ty.inner.members)
        /\ \A i \in 1..Len(members) :
              /\ members[i].name = unwrap_or(ty.inner.members[i].name, "unnamed")
              /\ members[i].offset = ty.inner.members[i].offset

\* C13: the types list of reflectWgsl holds one TypeInfo per struct type of
\* the type table and nothing for the other types, in table order, whether or
\* not an entry point refers to the struct; each has kind "struct" and its
\* members in declaration order with their byte offsets; a struct without a
\* declared name is named type_<handle>, and two distinct anonymous structs
\* get different names.
TypesListsEveryStruct ==
    Reflected =>
        /\ Len(ret.val.types) = Cardinality(StructHandles)
        /\ \A t \in 1..Len(ret.val.types) : DescribesStruct(ret.val.types[t], StructHandle(t))
        /\ \A t, u \in 1..Len(ret.val.types) :
              /\ t # u
              /\ is_none(TheModule.types[StructHandle(t)].name)
              /\ is_none(TheModule.types[StructHandle(u)].name)
              => ret.val.types[t].name # ret.val.types[u].name

\* A module with two anonymous structs, other types between its structs and
\* no entry point that uses a global: all four structs are listed, the
\* anonymous ones under the names of their handles.
TwoAnonymousStructsListed ==
    /\ Reflected
    /\ \A e \in Entries : ret.val.entry_points[e].bindings = <<>>
    /\ StructHandles = {2, 3, 4, Len(TheModule.types)}
    /\ Len(TheModule.types) > 5
    /\ [t \in 1..Len(ret.val.types) |-> ret.val.types[t].name]
           = <<"Light", "type_[2]", "type_[3]", "Block">>
====
